---- MODULE Spec2Model ----
(***************************************************************************)
(* Model of updated_script_dhanushka.py: a CSV of user rows is parsed,     *)
(* each row is validated, and each valid row is POSTed to the creation     *)
(* API through retry_with_backoff.                                         *)
(*                                                                         *)
(* Strings that the code inspects (field values) are sequences of          *)
(* one-character strings, so that str.strip() is computed, not assumed.    *)
(* A row is a function from the columns it has to their values; a column   *)
(* that csv.DictReader filled with None is modelled like an absent one     *)
(* (row.get(col) is None in both cases).                                   *)
(***************************************************************************)
EXTENDS Integers, Sequences, FiniteSets, TLC

VARIABLES
    pc,            \* position of the control flow
    file,          \* the input file: [status, rows]
    user_records,  \* process_user_file: the parsed rows
    idx,           \* process_user_file: 1-based position of the for loop
    outcomes,      \* one entry per record the loop has finished
    reports,       \* operator-facing prints of the read step and the driver
    error,         \* exception that escaped to the top level, or "none"
    max_retries,   \* retry_with_backoff: parameter
    base_interval, \* retry_with_backoff: parameter
    attempt,       \* retry_with_backoff: loop variable
    invocations,   \* number of calls of func made by the running retry
    waits,         \* durations passed to sleep by the running retry, in order
    retry_logs,    \* number of "Retrying attempt" info events of the retry
    rb_result,     \* retry_with_backoff: returned value ("none" while running)
    fails_before,  \* mock API: number of failing attempts before a 201
    last_resp,     \* what requests.post produced in the latest attempt
    last_log,      \* log events emitted by the latest call of the submitter
    cl_in,         \* classifier harness: [status, text, email]
    cl_out,        \* classifier harness: result of handle_http_response
    vl_in,         \* validator harness: the row
    vl_out,        \* validator harness: result of check_row_validity
    api_token,     \* process_user_file: parameter
    endpoint_url,  \* process_user_file: parameter
    headers,       \* process_user_file: the headers dictionary
    last_req,      \* what the latest requests.post was called with
    api_script,    \* mock API: fails_before it used per record position
    run,           \* 1 in the first run on the input, 2 in the re-run
    prev_outcomes  \* outcomes of the first run, kept for the re-run

vars == << pc, file, user_records, idx, outcomes, reports, error,
           max_retries, base_interval, attempt, invocations, waits,
           retry_logs, rb_result, fails_before, last_resp, last_log,
           cl_in, cl_out, vl_in, vl_out, api_token, endpoint_url, headers,
           last_req, api_script, run, prev_outcomes >>

argVars    == << api_token, endpoint_url >>
runVars    == << run, prev_outcomes >>
driverVars == << file, user_records, idx, outcomes, reports, argVars, headers,
                 api_script, runVars >>
retryVars  == << max_retries, base_interval, attempt, invocations, waits,
                 retry_logs, rb_result, fails_before, last_resp, last_log,
                 last_req >>
clVars     == << cl_in, cl_out, vl_in, vl_out >>

----------------------------------------------------------------------------
(* Configuration parameters                                                *)

DEFAULT_ENDPOINT_URL == "https://example.com/api/create_user"
MAX_RETRIES == 5
RETRY_INTERVAL == 2

(* Bounds of the model                                                     *)

MaxRecords == 3      \* longest input file, in rows
MaxFails == 5        \* the mock API fails at most this many times in a row
MaxRetriesArg == 5   \* largest max_retries of the stand-alone retry runs
MaxBaseArg == 2      \* largest base_interval of the stand-alone retry runs
MaxSmallRecords == 2 \* longest input file of the re-run and fair runs

----------------------------------------------------------------------------
(* Strings and rows                                                        *)

Columns == {"name", "email", "role"}

\* the whitespace str.strip() removes (the characters a CSV cell can hold)
IsSpace(c) == c \in {" ", "\t", "\n", "\r", "\f"}

RECURSIVE lstrip(_)
lstrip(s) ==
    IF s = << >> THEN << >>
    ELSE IF IsSpace(Head(s)) THEN lstrip(Tail(s)) ELSE s

RECURSIVE rstrip(_)
rstrip(s) ==
    IF s = << >> THEN << >>
    ELSE IF IsSpace(s[Len(s)]) THEN rstrip(SubSeq(s, 1, Len(s) - 1)) ELSE s

strip(s) == rstrip(lstrip(s))

\* variant: the value is not stripped before the emptiness test
FieldMissing_NoStrip(row, col) ==
    \/ col \notin DOMAIN row
    \/ row[col] = << >>

\* not row.get(col) or not row[col].strip()
FieldMissing(row, col) ==
    \/ col \notin DOMAIN row
    \/ row[col] = << >>
    \/ strip(row[col]) = << >>

\* the list comprehension of check_row_validity, in required_columns order
required_columns == << "name", "email", "role" >>

\* variant: the scan stops at the first missing column
missing_columns_FirstOnly(row) ==
    LET m == SelectSeq(required_columns, LAMBDA col : FieldMissing(row, col))
    IN  IF m = << >> THEN << >> ELSE << m[1] >>

missing_columns(row) ==
    SelectSeq(required_columns, LAMBDA col : FieldMissing(row, col))

check_row_validity(row) == missing_columns(row) = << >>

----------------------------------------------------------------------------
(* Response classification and one submission attempt                      *)

Transport == {"Timeout", "ConnectionError", "RequestException"}

ErrorEvent(kind, email, text) ==
    [level |-> "ERROR", kind |-> kind, email |-> email, text |-> text]

\* variant: every 2xx status counts as created
handle_http_response_Any2xx(status_code, text, email) ==
    IF status_code \in 200 .. 299 THEN [ret |-> TRUE, log |-> << >>]
    ELSE IF status_code = 400
        THEN [ret |-> FALSE, log |-> << ErrorEvent("Bad Request", email, text) >>]
    ELSE IF status_code = 401
        THEN [ret |-> FALSE, log |-> << ErrorEvent("Unauthorized request", email, text) >>]
    ELSE IF status_code = 404
        THEN [ret |-> FALSE, log |-> << ErrorEvent("Endpoint not found", email, text) >>]
    ELSE IF status_code = 500
        THEN [ret |-> FALSE, log |-> << ErrorEvent("Internal Server Error", email, text) >>]
    ELSE IF status_code = 503
        THEN [ret |-> FALSE, log |-> << ErrorEvent("Service Unavailable", email, text) >>]
    ELSE [ret |-> FALSE, log |-> << ErrorEvent("Unexpected error", email, text) >>]

\* handle_http_response: returned value and the log events it emits
handle_http_response(status_code, text, email) ==
    IF status_code = 201 THEN [ret |-> TRUE, log |-> << >>]
    ELSE IF status_code = 400
        THEN [ret |-> FALSE, log |-> << ErrorEvent("Bad Request", email, text) >>]
    ELSE IF status_code = 401
        THEN [ret |-> FALSE, log |-> << ErrorEvent("Unauthorized request", email, text) >>]
    ELSE IF status_code = 404
        THEN [ret |-> FALSE, log |-> << ErrorEvent("Endpoint not found", email, text) >>]
    ELSE IF status_code = 500
        THEN [ret |-> FALSE, log |-> << ErrorEvent("Internal Server Error", email, text) >>]
    ELSE IF status_code = 503
        THEN [ret |-> FALSE, log |-> << ErrorEvent("Service Unavailable", email, text) >>]
    ELSE [ret |-> FALSE, log |-> << ErrorEvent("Unexpected error", email, text) >>]

\* variant: no "except requests.RequestException" clause
CaughtTransport_NoGeneric == {"Timeout", "ConnectionError"}

\* The except clauses of send_user_creation_request
CaughtTransport == {"Timeout", "ConnectionError", "RequestException"}

\* send_user_creation_request, given what requests.post produced:
\* resp = [raised |-> kind, ...] or [raised |-> "none", status_code, text].
\* exc is the exception that leaves the function ("none" when it returns).
send_user_creation_request(resp, email) ==
    IF resp.raised = "none"
    THEN LET h == handle_http_response(resp.status_code, resp.text, email)
         IN  [ret |-> h.ret, exc |-> "none", log |-> h.log]
    ELSE IF resp.raised \in CaughtTransport
    THEN [ret |-> FALSE, exc |-> "none",
          log |-> << ErrorEvent(resp.raised, email, "") >>]
    ELSE [ret |-> FALSE, exc |-> resp.raised, log |-> << >>]

----------------------------------------------------------------------------
(* Inputs                                                                  *)

Bodies == {"", "detail"}

\* Status codes the mock API answers with besides 201; 418 stands for the
\* codes that handle_http_response has no branch for.
FailStatus == {400, 401, 404, 500, 503, 418}

FailResps ==
    [raised : {"none"}, status_code : FailStatus, text : {"detail"}]
    \cup [raised : Transport, status_code : {0}, text : {""}]

OkResps == [raised : {"none"}, status_code : {201}, text : {"detail"}]

NoResp == [raised |-> "unset", status_code |-> 0, text |-> ""]

NoHeaders == [k \in {} |-> << >>]

NoReq == [url |-> "", headers |-> NoHeaders, json |-> << >>]

GoodRow == [c \in Columns |-> << "a" >>]

Without(row, col) == [c \in (DOMAIN row) \ {col} |-> row[c]]

\* An empty or whitespace-only value for each column
BlankOf == [name |-> << >>, email |-> << " " >>, role |-> << " ", "\t" >>]

\* Rows of the input files: the complete row, and every row that has one
\* column absent or blank.
InputRows ==
    {GoodRow}
    \cup { Without(GoodRow, col) : col \in Columns }
    \cup { [GoodRow EXCEPT ![col] = BlankOf[col]] : col \in Columns }

RECURSIVE SeqsUpTo(_, _)
SeqsUpTo(S, n) ==
    IF n = 0 THEN { << >> }
    ELSE LET shorter == SeqsUpTo(S, n - 1)
         IN  shorter \cup { Append(q, x) : q \in { r \in shorter : Len(r) = n - 1 },
                                            x \in S }

FileStatus == {"ok", "FileNotFoundError", "PermissionError", "OtherError"}

Email(row) == IF "email" \in DOMAIN row THEN row["email"] ELSE << >>

----------------------------------------------------------------------------
(* parse_csv                                                               *)

\* variant: no "except Exception" clause
CaughtRead_NoGeneric == {"FileNotFoundError", "PermissionError"}

\* The except clauses of parse_csv; "OtherError" is any other Exception.
CaughtRead == {"FileNotFoundError", "PermissionError", "OtherError"}

\* parse_csv: returned rows, what it prints, and the exception that leaves it
parse_csv(f) ==
    IF f.status = "ok"
    THEN IF f.rows = << >>
         THEN [rows |-> << >>, prints |-> << "file is empty" >>, exc |-> "none"]
         ELSE [rows |-> f.rows, prints |-> << >>, exc |-> "none"]
    ELSE IF f.status = "FileNotFoundError" /\ f.status \in CaughtRead
    THEN [rows |-> << >>, prints |-> << "unable to locate the file" >>, exc |-> "none"]
    ELSE IF f.status = "PermissionError" /\ f.status \in CaughtRead
    THEN [rows |-> << >>, prints |-> << "permission denied" >>, exc |-> "none"]
    ELSE IF f.status \in CaughtRead
    THEN [rows |-> << >>, prints |-> << "unexpected error while reading" >>, exc |-> "none"]
    ELSE [rows |-> << >>, prints |-> << >>, exc |-> f.status]

----------------------------------------------------------------------------
(* retry_with_backoff                                                      *)

RetryIdle ==
    /\ max_retries = MAX_RETRIES
    /\ base_interval = RETRY_INTERVAL
    /\ attempt = 0
    /\ invocations = 0
    /\ waits = << >>
    /\ retry_logs = 0
    /\ rb_result = "none"
    /\ fails_before = 0
    /\ last_resp = NoResp
    /\ last_log = << >>
    /\ last_req = NoReq

\* variant: range(max_retries + 1)
RbAttempt_OffByOne ==
    /\ pc = "rb_loop"
    /\ attempt <= max_retries
    /\ \E resp \in (IF attempt >= fails_before THEN OkResps ELSE FailResps) :
         LET r == send_user_creation_request(resp, Email(user_records[idx]))
         IN  /\ invocations' = invocations + 1
             /\ last_resp' = resp
             /\ last_req' = [url |-> endpoint_url, headers |-> headers,
                             json |-> user_records[idx]]
             /\ last_log' = r.log
             /\ IF r.exc # "none"
                THEN /\ pc' = "crashed"
                     /\ error' = r.exc
                     /\ rb_result' = rb_result
                ELSE IF r.ret
                THEN /\ pc' = "rb_ret"
                     /\ rb_result' = "True"
                     /\ error' = error
                ELSE /\ pc' = "rb_sleep"
                     /\ rb_result' = rb_result
                     /\ error' = error
    /\ UNCHANGED << driverVars, clVars, max_retries, base_interval, attempt,
                    waits, retry_logs, fails_before >>

\* variant: the first attempt is made before the bound is tested
RbAttempt_AtLeastOnce ==
    /\ pc = "rb_loop"
    /\ (attempt < max_retries \/ attempt = 0)
    /\ \E resp \in (IF attempt >= fails_before THEN OkResps ELSE FailResps) :
         LET r == send_user_creation_request(resp, Email(user_records[idx]))
         IN  /\ invocations' = invocations + 1
             /\ last_resp' = resp
             /\ last_req' = [url |-> endpoint_url, headers |-> headers,
                             json |-> user_records[idx]]
             /\ last_log' = r.log
             /\ IF r.exc # "none"
                THEN /\ pc' = "crashed"
                     /\ error' = r.exc
                     /\ rb_result' = rb_result
                ELSE IF r.ret
                THEN /\ pc' = "rb_ret"
                     /\ rb_result' = "True"
                     /\ error' = error
                ELSE /\ pc' = "rb_sleep"
                     /\ rb_result' = rb_result
                     /\ error' = error
    /\ UNCHANGED << driverVars, clVars, max_retries, base_interval, attempt,
                    waits, retry_logs, fails_before >>

\* variant: a 4xx answer is taken as final and ends the retry with False
RbAttempt_GiveUpOn4xx ==
    /\ pc = "rb_loop"
    /\ attempt < max_retries
    /\ \E resp \in (IF attempt >= fails_before THEN OkResps ELSE FailResps) :
         LET r == send_user_creation_request(resp, Email(user_records[idx]))
         IN  /\ invocations' = invocations + 1
             /\ last_resp' = resp
             /\ last_req' = [url |-> endpoint_url, headers |-> headers,
                             json |-> user_records[idx]]
             /\ last_log' = r.log
             /\ IF r.exc # "none"
                THEN /\ pc' = "crashed"
                     /\ error' = r.exc
                     /\ rb_result' = rb_result
                ELSE IF r.ret
                THEN /\ pc' = "rb_ret"
                     /\ rb_result' = "True"
                     /\ error' = error
                ELSE IF resp.raised = "none" /\ resp.status_code \in 400 .. 499
                THEN /\ pc' = "rb_ret"
                     /\ rb_result' = "False"
                     /\ error' = error
                ELSE /\ pc' = "rb_sleep"
                     /\ rb_result' = rb_result
                     /\ error' = error
    /\ UNCHANGED << driverVars, clVars, max_retries, base_interval, attempt,
                    waits, retry_logs, fails_before >>

\* One pass through "if func(*args)": the POST of the attempt and its result.
\* The mock API answers 201 once it has failed fails_before times.
RbAttempt ==
    /\ pc = "rb_loop"
    /\ attempt < max_retries
    /\ \E resp \in (IF attempt >= fails_before THEN OkResps ELSE FailResps) :
         LET r == send_user_creation_request(resp, Email(user_records[idx]))
         IN  /\ invocations' = invocations + 1
             /\ last_resp' = resp
             /\ last_req' = [url |-> endpoint_url, headers |-> headers,
                             json |-> user_records[idx]]
             /\ last_log' = r.log
             /\ IF r.exc # "none"
                THEN /\ pc' = "crashed"
                     /\ error' = r.exc
                     /\ rb_result' = rb_result
                ELSE IF r.ret
                THEN /\ pc' = "rb_ret"
                     /\ rb_result' = "True"
                     /\ error' = error
                ELSE /\ pc' = "rb_sleep"
                     /\ rb_result' = rb_result
                     /\ error' = error
    /\ UNCHANGED << driverVars, clVars, max_retries, base_interval, attempt,
                    waits, retry_logs, fails_before >>

\* variant: "2 * attempt" for "2 ** attempt"
RbSleep_TimesForPower ==
    /\ pc = "rb_sleep"
    /\ waits' = Append(waits, base_interval * (2 * attempt))
    /\ retry_logs' = retry_logs + 1
    /\ attempt' = attempt + 1
    /\ pc' = "rb_loop"
    /\ UNCHANGED << driverVars, clVars, error, max_retries, base_interval,
                    invocations, rb_result, fails_before, last_resp, last_log,
                    last_req >>

\* variant: linear instead of exponential backoff
RbSleep_Linear ==
    /\ pc = "rb_sleep"
    /\ waits' = Append(waits, base_interval * (attempt + 1))
    /\ retry_logs' = retry_logs + 1
    /\ attempt' = attempt + 1
    /\ pc' = "rb_loop"
    /\ UNCHANGED << driverVars, clVars, error, max_retries, base_interval,
                    invocations, rb_result, fails_before, last_resp, last_log,
                    last_req >>

\* sleep(base_interval * (2 ** attempt)), the info log, and the loop increment
RbSleep ==
    /\ pc = "rb_sleep"
    /\ waits' = Append(waits, base_interval * (2 ^ attempt))
    /\ retry_logs' = retry_logs + 1
    /\ attempt' = attempt + 1
    /\ pc' = "rb_loop"
    /\ UNCHANGED << driverVars, clVars, error, max_retries, base_interval,
                    invocations, rb_result, fails_before, last_resp, last_log,
                    last_req >>

\* variant: exhaustion raises instead of returning False
RbExhausted_Raises ==
    /\ pc = "rb_loop"
    /\ attempt >= max_retries
    /\ error' = "RetryError"
    /\ pc' = "crashed"
    /\ UNCHANGED << driverVars, clVars, rb_result, max_retries, base_interval,
                    attempt, invocations, waits, retry_logs, fails_before,
                    last_resp, last_log, last_req >>

\* range(max_retries) is used up: return False
RbExhausted ==
    /\ pc = "rb_loop"
    /\ attempt >= max_retries
    /\ rb_result' = "False"
    /\ pc' = "rb_ret"
    /\ UNCHANGED << driverVars, clVars, error, max_retries, base_interval,
                    attempt, invocations, waits, retry_logs, fails_before,
                    last_resp, last_log, last_req >>

----------------------------------------------------------------------------
(* process_user_file                                                       *)

\* variant: the token is sent without the "Bearer " prefix
build_headers_NoBearer(token) ==
    [k \in {"Content-Type", "Authorization"} |->
        IF k = "Content-Type" THEN << "application/json" >>
        ELSE << token >>]

\* the headers dictionary of process_user_file; the f-string is kept as the
\* pair of its literal part and the token
build_headers(token) ==
    [k \in {"Content-Type", "Authorization"} |->
        IF k = "Content-Type" THEN << "application/json" >>
        ELSE << "Bearer ", token >>]

\* variant: no "if not user_records: ... return"
ProcessStart_NoEmptyCheck ==
    /\ pc = "start"
    /\ LET p == parse_csv(file)
       IN  IF p.exc # "none"
           THEN /\ pc' = "crashed"
                /\ error' = p.exc
                /\ reports' = << "logs are being written to" >>
                /\ UNCHANGED << user_records, headers >>
           ELSE /\ user_records' = p.rows
                /\ error' = error
                /\ reports' = << "logs are being written to" >> \o p.prints
                /\ headers' = build_headers(api_token)
                /\ pc' = "loop"
    /\ UNCHANGED << file, idx, outcomes, retryVars, clVars, argVars, api_script,
                    runVars >>

\* setup_logging, parse_csv and the "if not user_records" return
ProcessStart ==
    /\ pc = "start"
    /\ LET p == parse_csv(file)
       IN  IF p.exc # "none"
           THEN /\ pc' = "crashed"
                /\ error' = p.exc
                /\ reports' = << "logs are being written to" >>
                /\ UNCHANGED << user_records, headers >>
           ELSE /\ user_records' = p.rows
                /\ error' = error
                /\ IF p.rows = << >>
                   THEN /\ reports' = << "logs are being written to" >> \o p.prints
                                         \o << "no records found" >>
                        /\ headers' = headers
                        /\ pc' = "done"
                   ELSE /\ reports' = << "logs are being written to" >> \o p.prints
                        /\ headers' = build_headers(api_token)
                        /\ pc' = "loop"
    /\ UNCHANGED << file, idx, outcomes, retryVars, clVars, argVars, api_script,
                    runVars >>

\* the for loop has no record left
LoopEnd ==
    /\ pc = "loop"
    /\ idx > Len(user_records)
    /\ pc' = "done"
    /\ UNCHANGED << driverVars, error, retryVars, clVars >>

\* "if not check_row_validity(record): ... continue"
SkipInvalid ==
    /\ pc = "loop"
    /\ idx <= Len(user_records)
    /\ ~ check_row_validity(user_records[idx])
    /\ outcomes' = Append(outcomes,
                     [index |-> idx, kind |-> "skipped", attempts |-> invocations,
                      nwaits |-> Len(waits), fails_before |-> 0,
                      reported |-> 0])
    /\ idx' = idx + 1
    /\ UNCHANGED << pc, file, user_records, reports, error, retryVars, clVars,
                    argVars, headers, api_script, runVars >>

\* The mock API is deterministic per record position: the first time a
\* position is submitted it picks how often it fails, later runs replay it.
MockChoices(script, i) ==
    IF i \in DOMAIN script THEN {script[i]} ELSE 0 .. MaxFails

Scripted(script, i, k) ==
    [j \in (DOMAIN script) \cup {i} |-> IF j = i THEN k ELSE script[j]]

\* variant: the call overrides max_retries, the report still says MAX_RETRIES
StartRetry_Override ==
    /\ pc = "loop"
    /\ idx <= Len(user_records)
    /\ check_row_validity(user_records[idx])
    /\ max_retries' = 3
    /\ base_interval' = RETRY_INTERVAL
    /\ attempt' = 0
    /\ fails_before' \in MockChoices(api_script, idx)
    /\ api_script' = Scripted(api_script, idx, fails_before')
    /\ pc' = "rb_loop"
    /\ UNCHANGED << file, user_records, idx, outcomes, reports, argVars, headers,
                    runVars, error, clVars, invocations, waits, retry_logs,
                    rb_result, last_resp, last_log, last_req >>

\* variant: the attempt counter is not restarted by the call
StartRetry_KeepsAttempt ==
    /\ pc = "loop"
    /\ idx <= Len(user_records)
    /\ check_row_validity(user_records[idx])
    /\ max_retries' = MAX_RETRIES
    /\ base_interval' = RETRY_INTERVAL
    /\ attempt' = attempt
    /\ fails_before' \in MockChoices(api_script, idx)
    /\ api_script' = Scripted(api_script, idx, fails_before')
    /\ pc' = "rb_loop"
    /\ UNCHANGED << file, user_records, idx, outcomes, reports, argVars, headers,
                    runVars, error, clVars, invocations, waits, retry_logs,
                    rb_result, last_resp, last_log, last_req >>

\* the call retry_with_backoff(send_user_creation_request, record, ...)
StartRetry ==
    /\ pc = "loop"
    /\ idx <= Len(user_records)
    /\ check_row_validity(user_records[idx])
    /\ max_retries' = MAX_RETRIES
    /\ base_interval' = RETRY_INTERVAL
    /\ attempt' = 0
    /\ fails_before' \in MockChoices(api_script, idx)
    /\ api_script' = Scripted(api_script, idx, fails_before')
    /\ pc' = "rb_loop"
    /\ UNCHANGED << file, user_records, idx, outcomes, reports, argVars, headers,
                    runVars, error, clVars, invocations, waits, retry_logs,
                    rb_result, last_resp, last_log, last_req >>

\* variant: the returned value is not tested, success is always reported
RecordOutcome_IgnoresResult ==
    /\ pc = "rb_ret"
    /\ outcomes' = Append(outcomes,
                     [index |-> idx,
                      kind |-> "success",
                      attempts |-> invocations,
                      nwaits |-> Len(waits),
                      fails_before |-> fails_before,
                      reported |-> 0])
    /\ idx' = idx + 1
    /\ pc' = "loop"
    /\ max_retries' = max_retries
    /\ base_interval' = base_interval
    /\ attempt' = attempt
    /\ invocations' = 0
    /\ waits' = << >>
    /\ retry_logs' = 0
    /\ rb_result' = "none"
    /\ fails_before' = 0
    /\ last_resp' = NoResp
    /\ last_log' = << >>
    /\ last_req' = NoReq
    /\ UNCHANGED << file, user_records, reports, error, clVars, argVars, headers,
                    api_script, runVars >>

\* the if/else on the value retry_with_backoff returned; the per-record
\* history (invocations, waits, ...) restarts for the next record, while the
\* variables of the finished call keep their last values until the next call
RecordOutcome ==
    /\ pc = "rb_ret"
    /\ outcomes' = Append(outcomes,
                     [index |-> idx,
                      kind |-> IF rb_result = "True" THEN "success" ELSE "exhausted",
                      attempts |-> invocations,
                      nwaits |-> Len(waits),
                      fails_before |-> fails_before,
                      reported |-> IF rb_result = "True" THEN 0 ELSE MAX_RETRIES])
    /\ idx' = idx + 1
    /\ pc' = "loop"
    /\ max_retries' = max_retries
    /\ base_interval' = base_interval
    /\ attempt' = attempt
    /\ invocations' = 0
    /\ waits' = << >>
    /\ retry_logs' = 0
    /\ rb_result' = "none"
    /\ fails_before' = 0
    /\ last_resp' = NoResp
    /\ last_log' = << >>
    /\ last_req' = NoReq
    /\ UNCHANGED << file, user_records, reports, error, clVars, argVars, headers,
                    api_script, runVars >>

----------------------------------------------------------------------------
(* Specifications                                                          *)

ClIdle ==
    /\ cl_in = [status_code |-> 0, text |-> "", email |-> << >>]
    /\ cl_out = [ret |-> FALSE, log |-> << >>]
    /\ vl_in = << >>
    /\ vl_out = [valid |-> FALSE, missing |-> << >>]

\* the state before the first statement of process_user_file
DriverIdle ==
    /\ user_records = << >>
    /\ idx = 1
    /\ outcomes = << >>
    /\ reports = << >>
    /\ error = "none"
    /\ headers = NoHeaders
    /\ api_script = << >>
    /\ run = 1
    /\ prev_outcomes = << >>

\* the script started on a file of at most n rows
InitWith(n, tokens, urls) ==
    /\ pc = "start"
    /\ file \in [status : FileStatus, rows : SeqsUpTo(InputRows, n)]
    /\ api_token \in tokens
    /\ endpoint_url \in urls
    /\ DriverIdle
    /\ RetryIdle
    /\ ClIdle

\* A run of the script on an input file
Init == InitWith(MaxRecords, {"token"}, {DEFAULT_ENDPOINT_URL})

Next ==
    \/ ProcessStart
    \/ LoopEnd
    \/ SkipInvalid
    \/ StartRetry
    \/ RbAttempt
    \/ RbSleep
    \/ RbExhausted
    \/ RecordOutcome

Spec == Init /\ [][Next]_vars

\* The script run a second time in the same interpreter on the same file,
\* against the same mock API: process_user_file is entered again, its loop
\* starts over, and what the first run reported is kept for comparison.
Rerun ==
    /\ pc = "done"
    /\ run = 1
    /\ run' = 2
    /\ prev_outcomes' = outcomes
    /\ outcomes' = << >>
    /\ reports' = << >>
    /\ idx' = 1
    /\ pc' = "start"
    /\ UNCHANGED << file, user_records, argVars, headers, api_script, error,
                    retryVars, clVars >>

Tokens == {"token", "other-token"}

Endpoints == {DEFAULT_ENDPOINT_URL, "https://staging.example.com/users"}

InitRerun == InitWith(MaxSmallRecords, Tokens, Endpoints)

NextRerun ==
    \/ ProcessStart
    \/ LoopEnd
    \/ SkipInvalid
    \/ StartRetry
    \/ RbAttempt
    \/ RbSleep
    \/ RbExhausted
    \/ RecordOutcome
    \/ Rerun

SpecRerun == InitRerun /\ [][NextRerun]_vars

\* A run in which the single thread of control keeps taking its next step:
\* every sleep returns and every request returns within its timeout.
InitLive == InitWith(MaxSmallRecords, {"token"}, {DEFAULT_ENDPOINT_URL})

SpecLive == InitLive /\ [][Next]_vars /\ WF_vars(Next)

\* retry_with_backoff called on its own, with any max_retries and base_interval
InitRetry ==
    /\ pc = "rb_loop"
    /\ file = [status |-> "ok", rows |-> << GoodRow >>]
    /\ user_records = << GoodRow >>
    /\ idx = 1
    /\ outcomes = << >>
    /\ reports = << >>
    /\ error = "none"
    /\ max_retries \in 0 .. MaxRetriesArg
    /\ base_interval \in 1 .. MaxBaseArg
    /\ attempt = 0
    /\ invocations = 0
    /\ waits = << >>
    /\ retry_logs = 0
    /\ rb_result = "none"
    /\ fails_before \in 0 .. MaxFails
    /\ last_resp = NoResp
    /\ last_log = << >>
    /\ last_req = NoReq
    /\ api_token = "token"
    /\ endpoint_url = DEFAULT_ENDPOINT_URL
    /\ headers = build_headers("token")
    /\ api_script = << >>
    /\ run = 1
    /\ prev_outcomes = << >>
    /\ ClIdle

NextRetry ==
    \/ RbAttempt
    \/ RbSleep
    \/ RbExhausted

SpecRetry == InitRetry /\ [][NextRetry]_vars

\* the same call followed by the driver's handling of the returned value
NextRetryRecord ==
    \/ RbAttempt
    \/ RbSleep
    \/ RbExhausted
    \/ RecordOutcome

SpecRetryRecord == InitRetry /\ [][NextRetryRecord]_vars

\* handle_http_response applied to any status code
StatusCodes == 100 .. 599

Classify ==
    /\ pc = "cl_start"
    /\ cl_out' = handle_http_response(cl_in.status_code, cl_in.text, cl_in.email)
    /\ pc' = "cl_done"
    /\ UNCHANGED << driverVars, error, retryVars, cl_in, vl_in, vl_out >>

InitClassify ==
    /\ pc = "cl_start"
    /\ file = [status |-> "ok", rows |-> << >>]
    /\ api_token = "token"
    /\ endpoint_url = DEFAULT_ENDPOINT_URL
    /\ DriverIdle
    /\ RetryIdle
    /\ cl_in \in [status_code : StatusCodes, text : Bodies,
                  email : { << "a" >>, << >> }]
    /\ cl_out = [ret |-> FALSE, log |-> << >>]
    /\ vl_in = << >>
    /\ vl_out = [valid |-> FALSE, missing |-> << >>]

NextClassify == Classify

SpecClassify == InitClassify /\ [][NextClassify]_vars

\* check_row_validity applied to any row over the required columns
ValidatorValues == { << >>, << " " >>, << " ", "\t" >>, << "a" >>, << " ", "a", " " >> }

ValidatorRows == UNION { [D -> ValidatorValues] : D \in SUBSET Columns }

\* the returned value, and the list the function logs when it is not empty
Validate ==
    /\ pc = "vl_start"
    /\ vl_out' = [valid |-> check_row_validity(vl_in),
                  missing |-> missing_columns(vl_in)]
    /\ pc' = "vl_done"
    /\ UNCHANGED << driverVars, error, retryVars, cl_in, cl_out, vl_in >>

InitValidate ==
    /\ pc = "vl_start"
    /\ file = [status |-> "ok", rows |-> << >>]
    /\ api_token = "token"
    /\ endpoint_url = DEFAULT_ENDPOINT_URL
    /\ DriverIdle
    /\ RetryIdle
    /\ cl_in = [status_code |-> 0, text |-> "", email |-> << >>]
    /\ cl_out = [ret |-> FALSE, log |-> << >>]
    /\ vl_in \in ValidatorRows
    /\ vl_out = [valid |-> FALSE, missing |-> << >>]

NextValidate == Validate

SpecValidate == InitValidate /\ [][NextValidate]_vars

----------------------------------------------------------------------------
(* Vocabulary of the properties                                            *)

Whitespace == {" ", "\t", "\n", "\r", "\f"}

Blank(v) == \A i \in 1 .. Len(v) : v[i] \in Whitespace

RowInvalid(row) == \E col \in {"name", "email", "role"} :
                      col \notin DOMAIN row \/ Blank(row[col])

Min(a, b) == IF a <= b THEN a ELSE b

Count(seq, x) == Cardinality({ i \in 1 .. Len(seq) : seq[i] = x })

InRetry == pc \in {"rb_loop", "rb_sleep", "rb_ret"}

RECURSIVE SumSeq(_)
SumSeq(q) == IF q = << >> THEN 0 ELSE Head(q) + SumSeq(Tail(q))

\* The headers the interface section prescribes for a token
ExpectedHeaders(token) ==
    [k \in {"Content-Type", "Authorization"} |->
        IF k = "Authorization" THEN << "Bearer ", token >>
        ELSE << "application/json" >>]

\* The failure kind the design assigns to a status code, by the words the
\* code logs for it
KindOf(status_code) ==
    CASE status_code = 400 -> "Bad Request"
      [] status_code = 401 -> "Unauthorized request"
      [] status_code = 404 -> "Endpoint not found"
      [] status_code = 500 -> "Internal Server Error"
      [] status_code = 503 -> "Service Unavailable"
      [] OTHER -> "Unexpected error"

----------------------------------------------------------------------------
(* Properties                                                              *)

\* C1: when the operation fails on every attempt and max_retries = N >= 1,
\* retry_with_backoff returns False after exactly N invocations and exactly
\* N - 1 waits (no wait after the final attempt).
C1_ExhaustedAfterNMinusOneWaits ==
    (pc = "rb_ret" /\ rb_result = "False" /\ max_retries >= 1)
        => (invocations = max_retries /\ Len(waits) = max_retries - 1)

\* C2: when the operation fails k < max_retries times and then succeeds,
\* retry_with_backoff returns True after exactly k + 1 invocations and k
\* waits of base_interval * 2^0, ..., base_interval * 2^(k-1), in call order.
C2_SuccessAfterKFailures ==
    /\ (pc = "rb_ret" /\ fails_before < max_retries) => rb_result = "True"
    /\ (pc = "rb_ret" /\ rb_result = "True") =>
          /\ fails_before < max_retries
          /\ invocations = fails_before + 1
          /\ Len(waits) = fails_before
          /\ \A i \in 1 .. Len(waits) : waits[i] = base_interval * (2 ^ (i - 1))

C2_Witness ==
    /\ pc = "rb_ret"
    /\ rb_result = "True"
    /\ max_retries = 4
    /\ fails_before = 3
    /\ invocations = 4
    /\ waits = << base_interval, 2 * base_interval, 4 * base_interval >>

\* C3: a record with name, email or role absent or blank never reaches the
\* submitter: it is never the record of a running retry, and it finishes as
\* "skipped" with zero submission attempts and zero waits.
C3_InvalidNeverSubmitted ==
    /\ InRetry => ~ RowInvalid(user_records[idx])
    /\ \A i \in 1 .. Len(outcomes) :
          RowInvalid(user_records[i]) =>
              /\ outcomes[i].kind = "skipped"
              /\ outcomes[i].attempts = 0
              /\ outcomes[i].nwaits = 0

C3_Witness ==
    /\ pc = "done"
    /\ Len(outcomes) = 3
    /\ "email" \in DOMAIN user_records[2]
    /\ user_records[2]["email"] = << " " >>
    /\ outcomes[2].kind = "skipped"
    /\ outcomes[1].kind = "success"
    /\ outcomes[3].kind = "exhausted"

\* C4: each valid record gets exactly one terminal outcome, success or
\* exhausted failure, and it is success iff one of the first max_retries
\* attempts for the record succeeded.
C4_OneTerminalOutcome ==
    /\ pc \in {"loop", "rb_loop", "rb_sleep", "rb_ret"} => Len(outcomes) = idx - 1
    /\ pc = "done" => Len(outcomes) = Len(user_records)
    /\ \A i \in 1 .. Len(outcomes) :
          ~ RowInvalid(user_records[i]) =>
              /\ outcomes[i].kind \in {"success", "exhausted"}
              /\ outcomes[i].kind = "success" <=> outcomes[i].fails_before < MAX_RETRIES

C4_Witness ==
    /\ pc = "done"
    /\ Len(outcomes) = 2
    /\ outcomes[1].kind = "exhausted" /\ outcomes[1].fails_before = MAX_RETRIES
    /\ outcomes[2].kind = "success" /\ outcomes[2].fails_before = MAX_RETRIES - 1

\* C5: no failure on a record aborts the run: no exception leaves the loop,
\* the records get their outcomes in source order, and the loop ends only
\* when every record has one.
C5_NoAbort ==
    /\ pc # "crashed"
    /\ error = "none"
    /\ Len(outcomes) <= Len(user_records)
    /\ \A i \in 1 .. Len(outcomes) : outcomes[i].index = i
    /\ (pc = "done" /\ user_records # << >>) =>
          /\ idx = Len(user_records) + 1
          /\ Len(outcomes) = Len(user_records)

C5_Witness ==
    /\ pc = "done"
    /\ Len(outcomes) = 3
    /\ outcomes[1].kind = "exhausted"
    /\ outcomes[2].kind = "skipped"
    /\ outcomes[3].kind = "success"

\* C6: with max_retries = 5 a valid record answered 201 at once gets 1
\* submission attempt (success), a record without email gets 0 (skipped), a
\* valid record that is never answered 201 gets exactly 5 (exhausted); a
\* valid record gets min(index of the first successful attempt, 5) attempts.
C6_AttemptsPerRecord ==
    /\ pc = "rb_ret" => invocations = Min(fails_before + 1, 5)
    /\ \A i \in 1 .. Len(outcomes) :
          LET row == user_records[i]
              o == outcomes[i]
          IN  /\ ("email" \notin DOMAIN row \/ Blank(row["email"])) =>
                    (o.kind = "skipped" /\ o.attempts = 0)
              /\ ~ RowInvalid(row) =>
                    /\ o.attempts = Min(o.fails_before + 1, 5)
                    /\ o.fails_before = 0 => (o.kind = "success" /\ o.attempts = 1)
                    /\ o.fails_before >= 5 => (o.kind = "exhausted" /\ o.attempts = 5)

C6_Witness ==
    /\ pc = "rb_ret"
    /\ idx = 3
    /\ outcomes[1].kind = "success" /\ outcomes[1].attempts = 1
    /\ "email" \notin DOMAIN user_records[2]
    /\ outcomes[2].kind = "skipped" /\ outcomes[2].attempts = 0
    /\ rb_result = "False"
    /\ invocations = 5
    /\ last_resp.status_code = 500

\* C7: a failed attempt is followed by the backoff wait and the next pass of
\* the loop whatever its failure kind (transport failure or any non-201
\* status), and False is returned only after max_retries failed attempts.
C7_UniformRetry ==
    /\ [][ (invocations' = invocations + 1 /\ last_resp' \in FailResps)
              => (pc' = "rb_sleep" /\ rb_result' = "none" /\ error' = "none") ]_vars
    /\ [][ pc = "rb_sleep" => (pc' = "rb_loop" /\ attempt' = attempt + 1) ]_vars
    /\ []( (pc = "rb_ret" /\ rb_result = "False") =>
              (invocations = max_retries /\ fails_before >= max_retries) )

C7_Witness ==
    /\ pc = "rb_loop"
    /\ max_retries = 4
    /\ attempt = 2
    /\ invocations = 2
    /\ last_resp.status_code = 401

C9_ReadErrorIsEmptyInput ==
    file.status # "ok" =>
        /\ pc \in {"start", "done"}
        /\ error = "none"
        /\ user_records = << >>
        /\ invocations = 0
        /\ waits = << >>
        /\ outcomes = << >>
        /\ pc = "done" =>
              /\ Len(reports) = 3
              /\ reports[2] = (CASE file.status = "FileNotFoundError" -> "unable to locate the file"
                                 [] file.status = "PermissionError" -> "permission denied"
                                 [] OTHER -> "unexpected error while reading")
              /\ reports[3] = "no records found"

C9_Witness ==
    /\ pc = "done"
    /\ file.status = "OtherError"
    /\ Len(file.rows) = 2
    /\ user_records = << >>

\* C10: the classification is a function of the status code: 201 succeeds
\* for any body and record; 400, 401, 404, 500, 503 fail with their own kind
\* and the body kept; any other code fails as unexpected; only 201 succeeds.
C10_Classifier ==
    pc = "cl_done" =>
        /\ cl_out.ret = (cl_in.status_code = 201)
        /\ cl_in.status_code = 201 => cl_out.log = << >>
        /\ cl_in.status_code # 201 =>
              cl_out.log = << [level |-> "ERROR",
                               kind |-> KindOf(cl_in.status_code),
                               email |-> cl_in.email,
                               text |-> cl_in.text] >>

C10_Witness ==
    /\ pc = "cl_done"
    /\ cl_in.status_code = 503
    /\ cl_in.text = "detail"
    /\ cl_out.ret = FALSE
    /\ cl_out.log[1].kind = "Service Unavailable"

\* C11: the validator reports a row invalid iff at least one of name, email,
\* role is absent or blank after trimming, and the missing fields it lists
\* are exactly the absent-or-blank ones, all of them, each once.
C11_Validator ==
    pc = "vl_done" =>
        LET bad == { col \in {"name", "email", "role"} :
                        col \notin DOMAIN vl_in \/ Blank(vl_in[col]) }
        IN  /\ vl_out.valid = (bad = {})
            /\ { vl_out.missing[i] : i \in 1 .. Len(vl_out.missing) } = bad
            /\ Len(vl_out.missing) = Cardinality(bad)

C11_Witness ==
    /\ pc = "vl_done"
    /\ DOMAIN vl_in = {"email", "role"}
    /\ vl_in["email"] = << " ", "a", " " >>
    /\ vl_in["role"] = << " ", "\t" >>
    /\ vl_out.valid = FALSE
    /\ vl_out.missing = << "name", "role" >>

\* C12: each call of the submitter emits exactly one log event: an info
\* event when the attempt succeeds (201), an error event when it fails.
C12_OneLogEventPerCall ==
    last_resp # NoResp =>
        /\ Len(last_log) = 1
        /\ last_log[1].level =
              (IF last_resp.raised = "none" /\ last_resp.status_code = 201
               THEN "INFO" ELSE "ERROR")

\* C13: re-running the pipeline on the same input against the same
\* deterministic mock API gives the same per-record outcomes with the same
\* numbers of submission attempts as the first run.
C13_RerunSameOutcomes ==
    run = 2 =>
        /\ Len(outcomes) <= Len(prev_outcomes)
        /\ \A i \in 1 .. Len(outcomes) : outcomes[i] = prev_outcomes[i]
        /\ pc = "done" => outcomes = prev_outcomes

C13_Witness ==
    /\ run = 2
    /\ pc = "done"
    /\ Len(outcomes) = 2
    /\ outcomes[1].kind = "exhausted"
    /\ outcomes[2].kind = "success"
    /\ outcomes[2].attempts = 3
    /\ prev_outcomes = outcomes

\* C14: every run terminates: it reaches completion, after at most
\* max_retries submission attempts for each valid record, or after
\* reporting empty input.
C14_Terminates ==
    /\ <>(pc = "done")
    /\ [](invocations <= MAX_RETRIES)
    /\ [](\A i \in 1 .. Len(outcomes) : outcomes[i].attempts <= MAX_RETRIES)

C14_Witness ==
    /\ pc = "done"
    /\ Len(outcomes) = 2
    /\ outcomes[1].kind = "exhausted"
    /\ outcomes[1].attempts = MAX_RETRIES
    /\ outcomes[2].kind = "skipped"

\* C15: submissions never interleave across records: attempts and waits
\* happen only for the record at the loop position, after every earlier
\* record has its outcome and before any later one is looked at, and each
\* record's retry starts at attempt 0 with a first delay of base_interval.
C15_Sequential ==
    /\ [](InRetry => (idx <= Len(user_records) /\ Len(outcomes) = idx - 1))
    /\ [](InRetry => (Len(waits) = attempt
                      /\ (waits # << >> => waits[1] = RETRY_INTERVAL)))
    /\ [][ (pc = "loop" /\ pc' = "rb_loop")
              => (attempt' = 0 /\ invocations' = 0 /\ waits' = << >>) ]_vars
    /\ [][ (invocations' > invocations \/ Len(waits') > Len(waits))
              => (idx' = idx /\ outcomes' = outcomes) ]_vars
    /\ [][ idx' # idx
              => (idx' = idx + 1 /\ Len(outcomes') = idx /\ pc' = "loop"
                  /\ invocations' = 0 /\ waits' = << >>) ]_vars

C15_Witness ==
    /\ pc = "rb_sleep"
    /\ idx = 2
    /\ Len(outcomes) = 1
    /\ outcomes[1].kind = "exhausted"
    /\ attempt = 0
    /\ invocations = 1
    /\ waits = << >>

\* C16: a "retrying" info event is emitted only between attempts: there are
\* as many as waits, each is followed by another invocation, and none comes
\* after the final or a successful attempt.
C16_RetryLogOnlyBetweenAttempts ==
    /\ retry_logs = Len(waits)
    /\ pc = "rb_ret" => (retry_logs = 0 \/ retry_logs < invocations)

\* C17: when a valid record ends in exhaustion, the attempt count of the
\* driver's failure report equals the number of submission attempts made
\* for the record, the max_retries in force for the call.
C17_ReportedAttempts ==
    /\ (pc = "rb_ret" /\ rb_result = "False") =>
          (invocations = max_retries /\ max_retries = MAX_RETRIES)
    /\ \A i \in 1 .. Len(outcomes) :
          outcomes[i].kind = "exhausted" =>
              outcomes[i].reported = outcomes[i].attempts

C17_Witness ==
    /\ Len(outcomes) = 2
    /\ outcomes[2].kind = "exhausted"
    /\ outcomes[2].reported = 5
    /\ outcomes[2].attempts = 5

\* C18: the headers (Content-Type: application/json, Authorization: Bearer
\* <token>) are built once per run and no later step changes them; every
\* submission attempt is sent to the endpoint with these headers and the
\* record's fields as they were read.
C18_HeadersShared ==
    /\ []((pc \in {"loop", "rb_loop", "rb_sleep", "rb_ret"}) =>
             (headers = ExpectedHeaders(api_token) /\ user_records = file.rows))
    /\ [](last_req # NoReq =>
             /\ last_req.url = endpoint_url
             /\ last_req.headers = ExpectedHeaders(api_token)
             /\ last_req.json = file.rows[idx])
    /\ [][ pc # "start" => headers' = headers ]_vars
    /\ [][ pc # "start" => user_records' = user_records ]_vars
    /\ [][ api_token' = api_token /\ endpoint_url' = endpoint_url
           /\ file' = file ]_vars

C18_Witness ==
    /\ pc = "rb_sleep"
    /\ run = 2
    /\ idx = 2
    /\ invocations = 3
    /\ api_token = "other-token"
    /\ endpoint_url # DEFAULT_ENDPOINT_URL
    /\ last_req.url = endpoint_url
    /\ last_req.headers["Authorization"] = << "Bearer ", "other-token" >>
    /\ last_req.json = GoodRow

\* C19: with max_retries = 0 retry_with_backoff returns False without
\* invoking the operation, waiting or logging a retry, so the driver reports
\* the valid record as an exhausted failure with zero submission attempts.
C19_ZeroRetries ==
    max_retries = 0 =>
        /\ invocations = 0
        /\ waits = << >>
        /\ retry_logs = 0
        /\ last_req = NoReq
        /\ pc \in {"rb_loop", "rb_ret", "loop"}
        /\ pc = "rb_ret" => rb_result = "False"
        /\ pc = "loop" =>
              /\ Len(outcomes) = 1
              /\ outcomes[1].kind = "exhausted"
              /\ outcomes[1].attempts = 0
              /\ outcomes[1].nwaits = 0

C19_Witness ==
    /\ max_retries = 0
    /\ pc = "loop"
    /\ Len(outcomes) = 1
    /\ outcomes[1].kind = "exhausted"
    /\ outcomes[1].attempts = 0
    /\ ~ RowInvalid(user_records[1])

\* C20: for a never-succeeding operation and max_retries = N >= 1 the waits
\* start at base_interval, double each time, and add up to
\* base_interval * (2^N - 1): 62 for N = 5 and base_interval = 2.
C20_TotalWait ==
    (pc = "rb_ret" /\ rb_result = "False" /\ max_retries >= 1) =>
        /\ SumSeq(waits) = base_interval * ((2 ^ max_retries) - 1)
        /\ waits[1] = base_interval
        /\ \A i \in 1 .. Len(waits) - 1 : waits[i + 1] = 2 * waits[i]
        /\ (max_retries = 5 /\ base_interval = 2) => SumSeq(waits) = 62

C20_Witness ==
    /\ pc = "rb_ret"
    /\ rb_result = "False"
    /\ max_retries = 5
    /\ base_interval = 2
    /\ waits = << 2, 4, 8, 16, 32 >>

====
